---- MODULE Spec2Model ----
(***************************************************************************)
(* Tournament registration and bracket management: the fixture store, the  *)
(* fixture controller (generateFixtures, updateFixtureResult,              *)
(* updateFixtureStatus, progressWinnerToNextRound), the Fixture model's    *)
(* save middleware, the raw fixture update route, the registration routes  *)
(* and the team-based fixture generation route.                            *)
(***************************************************************************)
EXTENDS Integers, Sequences, FiniteSets, TLC

(***************************************************************************)
(* Bounds of the model.                                                    *)
(***************************************************************************)
NumRegs == 3        \* registrations of the tournament
MaxGen == 2         \* fixtures carried by one generation request
MaxRound == 2       \* round numbers a request may carry
MaxScore == 1       \* scores range over 0..MaxScore
MaxEdits == 1       \* raw PUT /:id updates explored per behaviour
Capacity == 2       \* maxParticipants of the tournament the registration routes serve
MaxTeams == 5       \* maxTeams of the tournament the team routes serve

\* JavaScript null / undefined reference (an unset ObjectId path).
NULL == 0

Regs == 1 .. NumRegs
FixtureIds == 1 .. MaxGen
Rounds == 1 .. MaxRound
Scores == 0 .. MaxScore

FixtureStatuses == {"Scheduled", "InProgress", "Completed", "Cancelled", "Postponed"}
RegistrationStatuses == {"Pending", "Approved", "Rejected"}
\* Status of a user without a Registration document.
NoReg == "None"
TournamentStatuses == {"Draft", "Open", "Full", "InProgress", "Completed"}
TournamentFormats == {"Single Elimination", "Round Robin"}

\* matchResultSchema: the scores and the forfeit flag of a recorded result.
\* The requests explored carry at most MaxScore points in total.
Results ==
  {r \in [participant1Score : Scores, participant2Score : Scores, forfeit : BOOLEAN] :
     r.participant1Score + r.participant2Score <= MaxScore}

\* A slot of the store that holds no document.
NoDoc ==
  [tournament |-> NULL, round |-> 0, matchNumber |-> 0, participant1 |-> NULL,
   participant2 |-> NULL, result |-> << >>, status |-> "Scheduled",
   winner |-> NULL, nextMatchId |-> NULL]

Exists(fx, id) == fx[id].tournament # NULL

VARIABLES
  tournament,   \* the Tournament document: status, format, maxParticipants,
                \* currentParticipants
  regStatus,    \* status of the Registration of each user (NoReg when none)
  fixtures,     \* the Fixture collection: id -> document (NoDoc when absent)
  edits,        \* number of raw PUT /:id updates made so far
  resp,         \* HTTP status of the last response ("off": responses not observed)
  teams,        \* the Team collection of the team routes: status of each team
  teamFormat,   \* format of the tournament the team routes serve
  teamFixtures, \* the fixtures created by POST /generate/:tournamentId
  bracket,      \* the Fixture collection served by two concurrent recordings
  pc,           \* position of each of the two recordings in updateFixtureResult
  local,        \* each recording's request and the documents it has read
  standings,    \* the last response of GET /:id/standings: status code and data
  paymentStatus, \* paymentStatus of each Registration
  payment       \* verificationStatus of the Payment of each Registration (NoPayment when none)

vars == <<tournament, regStatus, fixtures, edits, resp, teams, teamFormat, teamFixtures,
          bracket, pc, local, standings, paymentStatus, payment>>

\* The state of the payment routes.
payVars == <<paymentStatus, payment>>

\* A registration without a Payment document.
NoPayment == "None"

\* No standings requested yet.
NoStandings == [code |-> "none", data |-> << >>]

\* The state of the concurrent recordings.
concVars == <<bracket, pc, local>>

\* The state of the team routes.
teamVars == <<teams, teamFormat, teamFixtures>>

ApprovedCount == Cardinality({r \in Regs : regStatus[r] = "Approved"})

(***************************************************************************)
(* Fixture model: save middleware.                                         *)
(***************************************************************************)

\* A save() that runs no schema validation.
RequiredSkipped(doc) == TRUE

\* Schema validation run by save(): participant1 and participant2 are required.
RequiredOK(doc) == doc.participant1 # NULL /\ doc.participant2 # NULL

\* pre('save'): both participants must be different.
ParticipantsDifferent(doc) ==
  ~(doc.participant1 # NULL /\ doc.participant2 # NULL
    /\ doc.participant1 = doc.participant2)

\* pre('save'): winner and status derived from a modified result.
PreSaveWinner(doc, resultModified) ==
  IF doc.result # << >> /\ resultModified
  THEN LET r == doc.result[1]
           w == IF r.participant1Score > r.participant2Score THEN doc.participant1
                ELSE IF r.participant2Score > r.participant1Score THEN doc.participant2
                ELSE doc.winner
       IN [doc EXCEPT !.winner = w, !.status = "Completed"]
  ELSE doc

\* doc.isModified(path) inside a post('save') hook: save() resets the
\* document's modified paths before the post hooks run, whatever it changed.
ModifiedInPostSave(changed) == FALSE

\* An ObjectId never prints as the string 'TBD'.
IsTBD(ref) == FALSE

\* post('save'): update of the next match. A null slot makes
\* nextMatch.participant1.toString() throw; the error is caught and logged.
PostSaveNextMatch(fx, doc, winnerModified) ==
  IF doc.winner # NULL /\ doc.nextMatchId # NULL /\ winnerModified
  THEN IF ~Exists(fx, doc.nextMatchId) THEN fx
       ELSE LET nm == fx[doc.nextMatchId]
            IN IF nm.participant1 = NULL THEN fx
               ELSE IF IsTBD(nm.participant1)
                    THEN IF ParticipantsDifferent([nm EXCEPT !.participant1 = doc.winner])
                         THEN [fx EXCEPT ![doc.nextMatchId].participant1 = doc.winner]
                         ELSE fx
               ELSE IF nm.participant2 = NULL THEN fx
               ELSE IF IsTBD(nm.participant2)
                    THEN IF ParticipantsDifferent([nm EXCEPT !.participant2 = doc.winner])
                         THEN [fx EXCEPT ![doc.nextMatchId].participant2 = doc.winner]
                         ELSE fx
               ELSE fx
  ELSE fx

\* document.save(): validation, the pre hooks, the write, the post hook.
\* Yields <<ok, store, saved document>>.
FixtureSave(fx, id, doc, resultModified) ==
  IF ~RequiredOK(doc) THEN <<FALSE, fx, doc>>
  ELSE LET d1 == PreSaveWinner(doc, resultModified)
       IN IF ~ParticipantsDifferent(d1) THEN <<FALSE, fx, d1>>
          ELSE LET fx1 == [fx EXCEPT ![id] = d1]
               IN <<TRUE, PostSaveNextMatch(fx1, d1, ModifiedInPostSave(d1.winner # fx[id].winner)), d1>>

(***************************************************************************)
(* Fixture controller.                                                     *)
(***************************************************************************)

\* tournament.format.includes('Elimination') || includes('Knockout')
IsEliminationFormat(format) ==
  format \in {"Single Elimination", "Double Elimination", "Group Stage + Knockout"}

\* A participant of a request: << >> when the object is missing, else <<_id>>.
ReqParticipants == {<< >>} \cup {<<r>> : r \in Regs \cup {NULL}}

\* The entries a request may carry: two registrations in registration order,
\* or an entry that repeats registration 1, has no _id, or has no object.
FixtureData ==
  {d \in [round : Rounds, participant1 : {<<r>> : r \in Regs},
          participant2 : ReqParticipants] :
     \/ d.participant2 # << >> /\ d.participant1[1] < d.participant2[1]
     \/ d.round = 1 /\ d.participant1 = <<1>>
        /\ d.participant2 \in {<< >>, <<NULL>>, <<1>>}}

\* The first entry of a request: a round-1 entry of registration 1.
FirstEntries ==
  {d \in FixtureData :
     /\ d.round = 1 /\ d.participant1 = <<1>>
     /\ d.participant2 \in {<< >>, <<NULL>>, <<1>>, <<2>>}}

\* The requests of at most one entry.
ShortRequests == {<< >>} \cup {<<d>> : d \in FirstEntries}

\* The requests explored: up to MaxGen entries in round order.
GenRequests ==
  {req \in UNION {[1 .. n -> FixtureData] : n \in 0 .. MaxGen} :
     /\ Len(req) > 0 => req[1] \in FirstEntries
     /\ \A i \in 1 .. Len(req) : i > 1 => req[i - 1].round <= req[i].round}

\* res.status(code).json({message}): recorded unless responses are not observed.
Reply(code) == resp' = IF resp = "off" THEN resp ELSE code

InsufficientRegistrations == "400 At least 2 approved registrations are required"

\* Index of the first request entry whose participant object is missing:
\* fixtureData.participant1._id throws there and fixtures.map stops.
FirstThrow(req) ==
  LET bad == {i \in 1 .. Len(req) : req[i].participant1 = << >> \/ req[i].participant2 = << >>}
  IN IF bad = {} THEN Len(req) + 1 ELSE CHOOSE i \in bad : \A j \in bad : i <= j

\* new Fixture({...}) for entry i of the request.
NewFixture(req, i) ==
  [tournament |-> 1, round |-> req[i].round, matchNumber |-> i,
   participant1 |-> req[i].participant1[1], participant2 |-> req[i].participant2[1],
   result |-> << >>, status |-> "Scheduled", winner |-> NULL, nextMatchId |-> NULL]

\* The entries whose save() is started and succeeds.
SavedEntries(req) ==
  {i \in 1 .. (FirstThrow(req) - 1) :
     RequiredOK(NewFixture(req, i)) /\ ParticipantsDifferent(NewFixture(req, i))}

\* A generation whose deleteMany has no filter: the fixtures of every
\* tournament are cleared.
GeneratedStoreClearingAll(fx, req) ==
  [id \in DOMAIN fx |-> IF id \in SavedEntries(req) THEN NewFixture(req, id) ELSE NoDoc]

\* Fixture.deleteMany({tournament}) followed by the saves of the request; a
\* new document takes an identifier no other tournament's document has.
GeneratedStore(fx, req) ==
  [id \in DOMAIN fx |->
     IF id \in SavedEntries(req) THEN NewFixture(req, id)
     ELSE IF fx[id].tournament = 1 THEN NoDoc ELSE fx[id]]

\* A generation that clears the tournament's fixtures before it counts the
\* approved registrations.
generateFixturesClearingFirst(req) ==
  /\ UNCHANGED <<regStatus, edits>>
  /\ UNCHANGED <<teamVars, concVars, standings, payVars>>
  /\ IF ApprovedCount < 2
     THEN /\ Reply(InsufficientRegistrations)
          /\ fixtures' = [id \in FixtureIds |-> NoDoc]
          /\ UNCHANGED tournament
     ELSE /\ fixtures' = GeneratedStore(fixtures, req)
          /\ IF SavedEntries(req) = 1 .. Len(req)
             THEN /\ tournament' = [tournament EXCEPT !.status =
                                      IF @ = "Draft" THEN "Open" ELSE @]
                  /\ Reply("201")
             ELSE /\ Reply("500")
                  /\ UNCHANGED tournament

generateFixtures(req) ==
  /\ UNCHANGED <<regStatus, edits>>
  /\ UNCHANGED <<teamVars, concVars, standings, payVars>>
  /\ IF ApprovedCount < 2
     THEN /\ Reply(InsufficientRegistrations)
          /\ UNCHANGED <<tournament, fixtures>>
     ELSE /\ fixtures' = GeneratedStore(fixtures, req)
          /\ IF SavedEntries(req) = 1 .. Len(req)
             THEN /\ tournament' = [tournament EXCEPT !.status =
                                      IF @ = "Draft" THEN "Open" ELSE @]
                  /\ Reply("201")
             ELSE /\ Reply("500")
                  /\ UNCHANGED tournament

\* A progression that takes the first next-round fixture whether or not it has
\* an open slot and writes the winner without save(): into participant1, or
\* into participant2 when participant1 already holds the winner.
progressWinnerOverwriting(fx, completed) ==
  LET next == {i \in DOMAIN fx :
                 /\ Exists(fx, i)
                 /\ fx[i].tournament = completed.tournament
                 /\ fx[i].round = completed.round + 1}
  IN IF next = {} THEN fx
     ELSE LET n == CHOOSE i \in next : \A j \in next : fx[i].matchNumber <= fx[j].matchNumber
          IN IF fx[n].participant1 # completed.winner
             THEN [fx EXCEPT ![n].participant1 = completed.winner]
             ELSE [fx EXCEPT ![n].participant2 = completed.winner]

\* Helper of updateFixtureResult: the next-round fixtures with an open slot,
\* sorted by matchNumber; the first one takes the winner.
progressWinnerToNextRound(fx, completed) ==
  LET open == {i \in DOMAIN fx :
                 /\ Exists(fx, i)
                 /\ fx[i].tournament = completed.tournament
                 /\ fx[i].round = completed.round + 1
                 /\ (fx[i].participant1 = NULL \/ fx[i].participant2 = NULL)}
  IN IF open = {} THEN fx
     ELSE LET n == CHOOSE i \in open : \A j \in open : fx[i].matchNumber <= fx[j].matchNumber
              nf == IF fx[n].participant1 = NULL
                    THEN [fx[n] EXCEPT !.participant1 = completed.winner]
                    ELSE [fx[n] EXCEPT !.participant2 = completed.winner]
          IN FixtureSave(fx, n, nf, FALSE)[2]

\* The winner chosen by the controller before save(); <<FALSE, _>> when reading
\* participant._id of an unset slot throws.
ControllerWinner(doc, r) ==
  IF ~r.forfeit
  THEN IF r.participant1Score > r.participant2Score
       THEN <<doc.participant1 # NULL, doc.participant1>>
       ELSE IF r.participant2Score > r.participant1Score
            THEN <<doc.participant2 # NULL, doc.participant2>>
            ELSE <<TRUE, doc.winner>>
  ELSE IF r.participant1Score > r.participant2Score
       THEN <<doc.participant1 # NULL, doc.participant1>>
       ELSE <<doc.participant2 # NULL, doc.participant2>>

\* status || 'Completed'
StatusParams == {"", "InProgress"}
StatusOrCompleted(status) == IF status = "" THEN "Completed" ELSE status

\* The store after updateFixtureResult on an existing fixture: <<ok, store>>.
RecordResult(fx, format, id, r, status, fresh) ==
  LET doc == fx[id]
      cw == ControllerWinner(doc, r)
      d0 == [doc EXCEPT !.result = <<r>>, !.status = StatusOrCompleted(status),
                        !.winner = cw[2]]
      sv == FixtureSave(fx, id, d0, fresh \/ doc.result # <<r>>)
  IN IF ~cw[1] \/ ~sv[1] THEN <<FALSE, fx>>
     ELSE IF sv[3].winner # NULL /\ IsEliminationFormat(format)
          THEN <<TRUE, progressWinnerToNextRound(sv[2], sv[3])>>
          ELSE <<TRUE, sv[2]>>

\* Whether the request's result counts as modified: a request that repeats the
\* stored result with its completedAt leaves isModified('result') false.
FreshChoices(id, r) == IF fixtures[id].result = <<r>> THEN BOOLEAN ELSE {TRUE}

updateFixtureResult(id, r, status, fresh) ==
  /\ UNCHANGED <<tournament, regStatus, edits>>
  /\ UNCHANGED <<teamVars, concVars, standings, payVars>>
  /\ IF ~Exists(fixtures, id)
     THEN Reply("404") /\ UNCHANGED fixtures
     ELSE LET out == RecordResult(fixtures, tournament.format, id, r, status, fresh)
          IN /\ fixtures' = out[2]
             /\ Reply(IF out[1] THEN "200" ELSE "500")

\* The statuses sent to PUT /:id/status.
StatusInputs == {"InProgress", "Completed"}

updateFixtureStatus(id, status) ==
  /\ UNCHANGED <<tournament, regStatus, edits>>
  /\ UNCHANGED <<teamVars, concVars, standings, payVars>>
  /\ IF ~Exists(fixtures, id)
     THEN Reply("404") /\ UNCHANGED fixtures
     ELSE LET sv == FixtureSave(fixtures, id, [fixtures[id] EXCEPT !.status = status], FALSE)
          IN /\ fixtures' = sv[2]
             /\ Reply(IF sv[1] THEN "200" ELSE "500")

\* PUT /:id: Fixture.findByIdAndUpdate(id, req.body, {runValidators: true}).
\* The bodies explored set one path; no save middleware runs.
PutBodies ==
  ({"participant2", "winner"} \X Regs) \cup ({"nextMatchId"} \X FixtureIds)

updateFixture(id, body) ==
  /\ edits < MaxEdits
  /\ UNCHANGED <<tournament, regStatus>>
  /\ UNCHANGED <<teamVars, concVars, standings, payVars>>
  /\ IF ~Exists(fixtures, id)
     THEN Reply("404") /\ UNCHANGED <<fixtures, edits>>
     ELSE /\ fixtures' = [fixtures EXCEPT ![id][body[1]] = body[2]]
          /\ edits' = edits + 1
          /\ Reply("200")

(***************************************************************************)
(* Registration routes and tournament routes.                              *)
(***************************************************************************)

\* Registration.countDocuments({tournament, status: {$in: ['Pending', 'Approved']}})
OccupyingCount == Cardinality({u \in Regs : regStatus[u] \in {"Pending", "Approved"}})

\* The approved count once the registration of u has status s.
ApprovedCountWith(u, s) ==
  Cardinality({v \in Regs : [regStatus EXCEPT ![u] = s][v] = "Approved"})

\* The checks, the save and the participant count update shared by
\* POST /individual and POST /team.
Register(u) ==
  /\ UNCHANGED <<fixtures, edits>>
  /\ UNCHANGED <<teamVars, concVars, standings, payVars>>
  /\ IF tournament.status # "Open"
     THEN Reply("400 Registration is not open") /\ UNCHANGED <<tournament, regStatus>>
     ELSE IF OccupyingCount >= tournament.maxParticipants
     THEN Reply("400 Tournament is full") /\ UNCHANGED <<tournament, regStatus>>
     ELSE IF regStatus[u] # NoReg
     THEN Reply("400 Already registered") /\ UNCHANGED <<tournament, regStatus>>
     ELSE /\ regStatus' = [regStatus EXCEPT ![u] = "Pending"]
          /\ tournament' = [tournament EXCEPT
               !.currentParticipants = OccupyingCount + 1,
               !.status = IF OccupyingCount + 1 >= tournament.maxParticipants
                          THEN "Full" ELSE "Open"]
          /\ Reply("201")

registerIndividual(u) == Register(u)

\* The team members are users without a registration of their own.
registerTeam(u) == Register(u)

\* PUT /:registrationId/status
updateRegistrationStatus(u, status) ==
  /\ UNCHANGED <<fixtures, edits>>
  /\ UNCHANGED <<teamVars, concVars, standings, payVars>>
  /\ IF regStatus[u] = NoReg
     THEN Reply("404") /\ UNCHANGED <<tournament, regStatus>>
     ELSE /\ regStatus' = [regStatus EXCEPT ![u] = status]
          /\ tournament' = [tournament EXCEPT
               !.currentParticipants = ApprovedCountWith(u, status),
               !.status = IF ApprovedCountWith(u, status) >= tournament.maxParticipants
                          THEN "Full" ELSE "Open"]
          /\ Reply("200")

\* DELETE /:registrationId, before the tournament's start date.
cancelRegistration(u) ==
  /\ UNCHANGED <<fixtures, edits>>
  /\ UNCHANGED <<teamVars, concVars, standings, payVars>>
  /\ IF regStatus[u] = NoReg
     THEN Reply("404") /\ UNCHANGED <<tournament, regStatus>>
     ELSE /\ regStatus' = [regStatus EXCEPT ![u] = NoReg]
          /\ tournament' = [tournament EXCEPT
               !.currentParticipants = ApprovedCountWith(u, NoReg),
               !.status = "Open"]
          /\ Reply("200")

\* PUT /:id/capacity
updateCapacity ==
  /\ UNCHANGED <<regStatus, fixtures, edits>>
  /\ UNCHANGED <<teamVars, concVars, standings, payVars>>
  /\ tournament' = [tournament EXCEPT
       !.currentParticipants = OccupyingCount,
       !.status = IF OccupyingCount >= tournament.maxParticipants THEN "Full"
                  ELSE IF tournament.status = "Full" THEN "Open" ELSE @]
  /\ Reply("200")

\* updateTournament: Tournament.findByIdAndUpdate(id, req.body); the bodies
\* explored publish the tournament or start it.
TournamentBodies == {"Open", "InProgress"}

updateTournament(status) ==
  /\ UNCHANGED <<regStatus, fixtures, edits>>
  /\ UNCHANGED <<teamVars, concVars, standings, payVars>>
  /\ tournament' = [tournament EXCEPT !.status = status]
  /\ Reply("200")

(***************************************************************************)
(* Team routes and the team-based fixture generation route.                *)
(***************************************************************************)

TeamStatuses == {"registered", "confirmed", "withdrawn"}
TeamFormats == {"league", "knockout"}

\* The state of the registration and fixture routes.
storeVars == <<tournament, regStatus, fixtures, edits>>

\* POST /register: a new team while the tournament has room.
registerTeamEntry ==
  /\ UNCHANGED <<storeVars, concVars, teamFormat, teamFixtures, standings, payVars>>
  /\ IF Len(teams) >= MaxTeams
     THEN Reply("400 Tournament is full") /\ UNCHANGED teams
     ELSE teams' = Append(teams, "registered") /\ Reply("201")

\* PUT /:id/status of a team.
updateTeamStatus(t, status) ==
  /\ UNCHANGED <<storeVars, concVars, teamFormat, teamFixtures, standings, payVars>>
  /\ IF t > Len(teams)
     THEN Reply("404") /\ UNCHANGED teams
     ELSE teams' = [teams EXCEPT ![t] = status] /\ Reply("200")

\* Team.find({tournament, status: 'confirmed'}), in insertion order.
RECURSIVE ConfirmedFrom(_, _)
ConfirmedFrom(ts, i) ==
  IF i > Len(ts) THEN << >>
  ELSE IF ts[i] = "confirmed" THEN <<i>> \o ConfirmedFrom(ts, i + 1)
  ELSE ConfirmedFrom(ts, i + 1)

ConfirmedTeams == ConfirmedFrom(teams, 1)

\* A league loop whose inner index starts at i instead of i + 1.
RECURSIVE LeagueLoopFromSelf(_, _, _, _)
LeagueLoopFromSelf(ts, i, j, acc) ==
  IF i > Len(ts) THEN acc
  ELSE IF j > Len(ts) THEN LeagueLoopFromSelf(ts, i + 1, i + 1, acc)
  ELSE LeagueLoopFromSelf(ts, i, j + 1,
         Append(acc, [round |-> "League", matchNumber |-> Len(acc) + 1,
                      homeTeam |-> ts[i], awayTeam |-> ts[j]]))

LeagueFixturesFromSelf(ts) == LeagueLoopFromSelf(ts, 1, 1, << >>)

\* The league branch: for (i ...) for (j = i + 1 ...) fixtures.push({...}).
RECURSIVE LeagueLoop(_, _, _, _)
LeagueLoop(ts, i, j, acc) ==
  IF i > Len(ts) THEN acc
  ELSE IF j > Len(ts) THEN LeagueLoop(ts, i + 1, i + 2, acc)
  ELSE LeagueLoop(ts, i, j + 1,
         Append(acc, [round |-> "League", matchNumber |-> Len(acc) + 1,
                      homeTeam |-> ts[i], awayTeam |-> ts[j]]))

LeagueFixtures(ts) == LeagueLoop(ts, 1, 2, << >>)

\* Math.ceil(Math.log2(n)) for n >= 1.
RECURSIVE CeilLog2(_)
CeilLog2(n) == IF n <= 1 THEN 0 ELSE 1 + CeilLog2((n + 1) \div 2)

RoundName(round, rounds) ==
  IF round = rounds THEN "Final"
  ELSE IF round = rounds - 1 THEN "Semi-Final"
  ELSE "Round 1"

\* The knockout branch: the pairing loop of round 1; the loop over the rounds
\* breaks after its first pass.
RECURSIVE KnockoutLoop(_, _, _)
KnockoutLoop(ts, i, acc) ==
  IF i > Len(ts) THEN acc
  ELSE IF i + 1 <= Len(ts)
  THEN KnockoutLoop(ts, i + 2,
         Append(acc, [round |-> RoundName(1, CeilLog2(Len(ts))),
                      matchNumber |-> Len(acc) + 1,
                      homeTeam |-> ts[i], awayTeam |-> ts[i + 1]]))
  ELSE KnockoutLoop(ts, i + 2, acc)

KnockoutFixtures(ts) == IF CeilLog2(Len(ts)) >= 1 THEN KnockoutLoop(ts, 1, << >>) ELSE << >>

\* POST /generate/:tournamentId
generateTeamFixtures ==
  /\ UNCHANGED <<storeVars, concVars, teams, teamFormat, standings, payVars>>
  /\ IF Len(ConfirmedTeams) < 2
     THEN Reply("400 At least 2 confirmed teams required") /\ UNCHANGED teamFixtures
     ELSE /\ teamFixtures' = IF teamFormat = "league" THEN LeagueFixtures(ConfirmedTeams)
                             ELSE IF teamFormat = "knockout"
                                  THEN KnockoutFixtures(ConfirmedTeams)
                                  ELSE << >>
          /\ Reply("201")

(***************************************************************************)
(* Two concurrent updateFixtureResult requests, one step per await.        *)
(***************************************************************************)

Procs == {1, 2}
ConcIds == {1, 2, 3}
ConcRegs == 1 .. 4

\* The generation requests behind the bracket: two first-round fixtures and a
\* second-round fixture with the participants the client chose for it.
ConcRequests ==
  {<<[round |-> 1, participant1 |-> <<1>>, participant2 |-> <<2>>],
     [round |-> 1, participant1 |-> <<3>>, participant2 |-> <<4>>],
     [round |-> 2, participant1 |-> <<a>>, participant2 |-> <<b>>]>> :
     a \in ConcRegs \cup {NULL}, b \in ConcRegs \cup {NULL}}

NoLocal == [result |-> << >>, fixture |-> NoDoc, next |-> NULL, nextDoc |-> NoDoc]

\* An update that inserts the document it does not find.
UpdateOneUpserting(store, id, updated, whole) ==
  [store EXCEPT ![id] = IF Exists(store, id) THEN updated ELSE whole]

\* Model.updateOne({_id}, {$set: modified paths}) behind save() of a document
\* that was read from the store: a deleted document is not written again.
UpdateOne(store, id, updated, whole) ==
  IF Exists(store, id) THEN [store EXCEPT ![id] = updated] ELSE store

\* Fixture.findById(id): recording p serves fixture p; 404 when it is gone.
findFixture(p, r) ==
  /\ pc[p] = "idle"
  /\ UNCHANGED <<storeVars, teamVars, resp, bracket, standings, payVars>>
  /\ IF Exists(bracket, p)
     THEN /\ local' = [local EXCEPT ![p] = [@ EXCEPT !.result = <<r>>, !.fixture = bracket[p]]]
          /\ pc' = [pc EXCEPT ![p] = "found"]
     ELSE /\ pc' = [pc EXCEPT ![p] = "missing"]
          /\ UNCHANGED local

\* fixture.result = ...; fixture.status = ...; fixture.winner = ...; fixture.save()
saveFixture(p) ==
  /\ pc[p] = "found"
  /\ UNCHANGED <<storeVars, teamVars, resp, standings, payVars>>
  /\ LET doc == local[p].fixture
         r == local[p].result[1]
         cw == ControllerWinner(doc, r)
         d0 == [doc EXCEPT !.result = <<r>>, !.status = "Completed", !.winner = cw[2]]
         sv == FixtureSave(bracket, p, d0, TRUE)
     IN IF ~cw[1] \/ ~sv[1]
        THEN /\ pc' = [pc EXCEPT ![p] = "done"]
             /\ UNCHANGED <<bracket, local>>
        ELSE /\ bracket' = UpdateOne(IF Exists(bracket, p) THEN sv[2] ELSE bracket, p,
                                      [bracket[p] EXCEPT !.result = sv[3].result,
                                                         !.status = sv[3].status,
                                                         !.winner = sv[3].winner],
                                      sv[3])
             /\ local' = [local EXCEPT ![p].fixture = sv[3]]
             /\ \/ pc' = [pc EXCEPT ![p] =
                            IF sv[3].winner # NULL /\ IsEliminationFormat(tournament.format)
                            THEN "saved" ELSE "done"]
                \/ ~Exists(bracket, p) /\ pc' = [pc EXCEPT ![p] = "lost"]

\* progressWinnerToNextRound: Fixture.find({... $or: [{participant1: null},
\* {participant2: null}]}), then nextFixture.save() of the first one found.
progressWinner(p) ==
  /\ pc[p] \in {"saved", "progressing"}
  /\ UNCHANGED <<storeVars, teamVars, resp, standings, payVars>>
  /\ IF pc[p] = "saved"
     THEN LET completed == local[p].fixture
              open == {i \in ConcIds :
                         /\ Exists(bracket, i)
                         /\ bracket[i].tournament = completed.tournament
                         /\ bracket[i].round = completed.round + 1
                         /\ (bracket[i].participant1 = NULL \/ bracket[i].participant2 = NULL)}
          IN IF open = {}
             THEN pc' = [pc EXCEPT ![p] = "done"] /\ UNCHANGED <<bracket, local>>
             ELSE LET n == CHOOSE i \in open :
                             \A j \in open : bracket[i].matchNumber <= bracket[j].matchNumber
                  IN /\ local' = [local EXCEPT ![p].next = n, ![p].nextDoc = bracket[n]]
                     /\ pc' = [pc EXCEPT ![p] = "progressing"]
                     /\ UNCHANGED bracket
     ELSE LET n == local[p].next
              nd == local[p].nextDoc
              w == local[p].fixture.winner
              nf == IF nd.participant1 = NULL THEN [nd EXCEPT !.participant1 = w]
                    ELSE [nd EXCEPT !.participant2 = w]
          IN /\ pc' = [pc EXCEPT ![p] = "done"]
             /\ UNCHANGED local
             /\ IF RequiredOK(nf) /\ ParticipantsDifferent(nf)
                THEN bracket' = UpdateOne(bracket, n,
                                          IF nd.participant1 = NULL
                                          THEN [bracket[n] EXCEPT !.participant1 = w]
                                          ELSE [bracket[n] EXCEPT !.participant2 = w],
                                          nf)
                ELSE UNCHANGED bracket

(***************************************************************************)
(* Specifications.                                                         *)
(***************************************************************************)

\* The fixture store of a tournament whose registrations are all approved and
\* whose status updateTournament has set back to Draft.
Init ==
  /\ tournament \in [status : {"Draft"}, format : TournamentFormats,
                     maxParticipants : {NumRegs}, currentParticipants : {NumRegs}]
  /\ regStatus = [r \in Regs |-> "Approved"]
  /\ fixtures = [id \in FixtureIds |-> NoDoc]
  /\ edits = 0
  /\ resp = "off"
  /\ teams = << >> /\ teamFormat = "league" /\ teamFixtures = << >>
  /\ bracket = [id \in ConcIds |-> NoDoc]
  /\ pc = [p \in Procs |-> "idle"]
  /\ local = [p \in Procs |-> NoLocal]
  /\ standings = NoStandings
  /\ paymentStatus = [r \in Regs |-> "Pending"]
  /\ payment = [r \in Regs |-> NoPayment]

Next ==
  \/ \E req \in GenRequests : generateFixtures(req)
  \/ \E id \in FixtureIds, r \in Results, status \in StatusParams :
       \E fresh \in FreshChoices(id, r) : updateFixtureResult(id, r, status, fresh)
  \/ \E id \in FixtureIds, status \in StatusInputs : updateFixtureStatus(id, status)
  \/ \E id \in FixtureIds, body \in PutBodies : updateFixture(id, body)

Spec == Init /\ [][Next]_vars

\* Registration for a new tournament of Capacity places, and generation.
InitReg ==
  /\ tournament \in [status : {"Draft"}, format : {"Single Elimination"},
                     maxParticipants : {Capacity}, currentParticipants : {0}]
  /\ regStatus = [r \in Regs |-> NoReg]
  /\ fixtures = [id \in FixtureIds |-> NoDoc]
  /\ edits = 0
  /\ resp = "none"
  /\ teams = << >> /\ teamFormat = "league" /\ teamFixtures = << >>
  /\ bracket = [id \in ConcIds |-> NoDoc]
  /\ pc = [p \in Procs |-> "idle"]
  /\ local = [p \in Procs |-> NoLocal]
  /\ standings = NoStandings
  /\ paymentStatus = [r \in Regs |-> "Pending"]
  /\ payment = [r \in Regs |-> NoPayment]

NextReg ==
  \/ \E status \in TournamentBodies : updateTournament(status)
  \/ \E u \in Regs : registerIndividual(u)
  \/ \E u \in Regs : registerTeam(u)
  \/ \E u \in Regs, status \in RegistrationStatuses : updateRegistrationStatus(u, status)
  \/ \E u \in Regs : cancelRegistration(u)
  \/ updateCapacity
  \/ \E req \in ShortRequests : generateFixtures(req)

SpecReg == InitReg /\ [][NextReg]_vars

\* The team routes of a tournament of either format.
InitGen ==
  /\ tournament = [status |-> "Draft", format |-> "Round Robin",
                   maxParticipants |-> NumRegs, currentParticipants |-> 0]
  /\ regStatus = [r \in Regs |-> NoReg]
  /\ fixtures = [id \in FixtureIds |-> NoDoc]
  /\ edits = 0
  /\ resp = "off"
  /\ teams = << >>
  /\ teamFormat \in TeamFormats
  /\ teamFixtures = << >>
  /\ bracket = [id \in ConcIds |-> NoDoc]
  /\ pc = [p \in Procs |-> "idle"]
  /\ local = [p \in Procs |-> NoLocal]
  /\ standings = NoStandings
  /\ paymentStatus = [r \in Regs |-> "Pending"]
  /\ payment = [r \in Regs |-> NoPayment]

NextGen ==
  \/ registerTeamEntry
  \/ \E t \in 1 .. MaxTeams, status \in TeamStatuses : updateTeamStatus(t, status)
  \/ generateTeamFixtures

SpecGen == InitGen /\ [][NextGen]_vars

\* Two recordings on the first-round fixtures of a generated bracket; the
\* bracket's participants are ConcRegs, and regStatus is not read.
InitConc ==
  /\ tournament = [status |-> "Open", format |-> "Single Elimination",
                   maxParticipants |-> NumRegs, currentParticipants |-> NumRegs]
  /\ regStatus = [r \in Regs |-> "Approved"]
  /\ fixtures = [id \in FixtureIds |-> NoDoc]
  /\ edits = 0
  /\ resp = "off"
  /\ teams = << >> /\ teamFormat = "league" /\ teamFixtures = << >>
  /\ bracket \in {GeneratedStore([id \in ConcIds |-> NoDoc], req) : req \in ConcRequests}
  /\ pc = [p \in Procs |-> "idle"]
  /\ local = [p \in Procs |-> NoLocal]
  /\ standings = NoStandings
  /\ paymentStatus = [r \in Regs |-> "Pending"]
  /\ payment = [r \in Regs |-> NoPayment]

NextConc ==
  \/ \E p \in Procs, r \in Results : findFixture(p, r)
  \/ \E p \in Procs : saveFixture(p)
  \/ \E p \in Procs : progressWinner(p)

SpecConc == InitConc /\ [][NextConc]_vars

\* A generation interleaved with recordings on the bracket it replaces. The
\* old bracket is fixture 1 and a second fixture that may have unset
\* participants (see OpenBracket below); the generator holds the document it
\* builds from its request and stores it under a new identifier.
Generator == Cardinality(Procs) + 1
GeneratedIds == ConcIds \ Procs

RegenRequests ==
  {<<[round |-> rd, participant1 |-> <<a>>, participant2 |-> <<b>>]>> :
     rd \in Rounds, a \in {1, 3}, b \in {NULL, 2, 3}}

OldBrackets ==
  {[id \in ConcIds |->
      IF id = 1
      THEN [NoDoc EXCEPT !.tournament = 1, !.round = 1, !.matchNumber = 1,
                         !.participant1 = 1, !.participant2 = 2]
      ELSE IF id = 2
      THEN [NoDoc EXCEPT !.tournament = 1, !.round = 2, !.matchNumber = 2,
                         !.participant1 = p1, !.participant2 = p2]
      ELSE NoDoc] : p1 \in {NULL, 3}, p2 \in {NULL, 4}}

\* Fixture.deleteMany({tournament}); fixtures.map then builds the documents.
deleteFixtures(req) ==
  /\ pc[Generator] = "idle"
  /\ ApprovedCount >= 2
  /\ UNCHANGED <<storeVars, teamVars, resp, standings, payVars>>
  /\ bracket' = [id \in ConcIds |-> IF bracket[id].tournament = 1 THEN NoDoc ELSE bracket[id]]
  /\ local' = [local EXCEPT ![Generator].fixture = NewFixture(req, 1)]
  /\ pc' = [pc EXCEPT ![Generator] = "cleared"]

\* fixture.save() of the new document.
saveGenerated ==
  /\ pc[Generator] = "cleared"
  /\ UNCHANGED <<storeVars, teamVars, resp, local, standings, payVars>>
  /\ pc' = [pc EXCEPT ![Generator] = "done"]
  /\ LET doc == local[Generator].fixture
     IN bracket' = IF RequiredOK(doc) /\ ParticipantsDifferent(doc)
                   THEN [id \in ConcIds |-> IF id \in GeneratedIds THEN doc ELSE bracket[id]]
                   ELSE bracket

InitRegen ==
  /\ tournament \in [status : {"Open"}, format : TournamentFormats,
                     maxParticipants : {NumRegs}, currentParticipants : {NumRegs}]
  /\ regStatus = [r \in Regs |-> "Approved"]
  /\ fixtures = [id \in FixtureIds |-> NoDoc]
  /\ edits = 0
  /\ resp = "off"
  /\ teams = << >> /\ teamFormat = "league" /\ teamFixtures = << >>
  /\ bracket \in OldBrackets
  /\ pc = [p \in Procs \cup {Generator} |-> "idle"]
  /\ local = [p \in Procs \cup {Generator} |-> NoLocal]
  /\ standings = NoStandings
  /\ paymentStatus = [r \in Regs |-> "Pending"]
  /\ payment = [r \in Regs |-> NoPayment]

NextRegen ==
  \/ \E req \in RegenRequests : deleteFixtures(req)
  \/ saveGenerated
  \/ \E p \in Procs, r \in Results : findFixture(p, r)
  \/ \E p \in Procs : saveFixture(p)
  \/ \E p \in Procs : progressWinner(p)

SpecRegen == InitRegen /\ [][NextRegen]_vars

\* Recordings on a bracket whose second-round fixture has unset participants,
\* the documents progressWinnerToNextRound queries for ({participant1: null},
\* {participant2: null}). No route stores such a document (participant1 and
\* participant2 are required), so the collection starts with one in place.
OpenSlots == {NULL} \cup Regs

OpenBracket(p1, p2, nm) ==
  [id \in FixtureIds |->
     IF id = 1
     THEN [NoDoc EXCEPT !.tournament = 1, !.round = 1, !.matchNumber = 1,
                        !.participant1 = 1, !.participant2 = 2, !.nextMatchId = nm]
     ELSE IF id = 2
     THEN [NoDoc EXCEPT !.tournament = 1, !.round = 2, !.matchNumber = 2,
                        !.participant1 = p1, !.participant2 = p2]
     ELSE NoDoc]

InitOpen ==
  /\ tournament \in [status : {"Open"}, format : TournamentFormats,
                     maxParticipants : {NumRegs}, currentParticipants : {NumRegs}]
  /\ regStatus = [r \in Regs |-> "Approved"]
  /\ \E p1 \in OpenSlots, p2 \in OpenSlots, nm \in {NULL, 2} :
       /\ p1 = NULL \/ p1 # p2
       /\ fixtures = OpenBracket(p1, p2, nm)
  /\ edits = 0
  /\ resp = "none"
  /\ teams = << >> /\ teamFormat = "league" /\ teamFixtures = << >>
  /\ bracket = [id \in ConcIds |-> NoDoc]
  /\ pc = [p \in Procs |-> "idle"]
  /\ local = [p \in Procs |-> NoLocal]
  /\ standings = NoStandings
  /\ paymentStatus = [r \in Regs |-> "Pending"]
  /\ payment = [r \in Regs |-> NoPayment]

NextOpen ==
  \/ \E id \in FixtureIds, r \in Results, status \in StatusParams :
       \E fresh \in FreshChoices(id, r) : updateFixtureResult(id, r, status, fresh)
  \/ \E id \in FixtureIds, status \in StatusInputs : updateFixtureStatus(id, status)

SpecOpen == InitOpen /\ [][NextOpen]_vars

\* The same recordings on a bracket whose second-round fixture has one
\* participant unset and holds no participant of fixture 1: a participant of
\* fixture 1 that it later holds came by progression.
InitAdvance ==
  /\ InitOpen
  /\ fixtures[2].participant1 = NULL \/ fixtures[2].participant2 = NULL
  /\ {fixtures[2].participant1, fixtures[2].participant2}
       \cap {fixtures[1].participant1, fixtures[1].participant2} = {}

NextAdvance ==
  \/ \E id \in FixtureIds, r \in Results, status \in StatusParams :
       \E fresh \in FreshChoices(id, r) : updateFixtureResult(id, r, status, fresh)
  \/ \E id \in FixtureIds, status \in StatusInputs : updateFixtureStatus(id, status)

SpecAdvance == InitAdvance /\ [][NextAdvance]_vars

(***************************************************************************)
(* Standings.                                                              *)
(***************************************************************************)

\* The orders in which find() may return the documents of S.
Orderings(S) ==
  {f \in [1 .. Cardinality(S) -> S] :
     \A i, j \in 1 .. Cardinality(S) : i # j => f[i] # f[j]}

\* Registration.find({tournament: id, status: 'Approved'})
ApprovedRegistrations == {u \in Regs : regStatus[u] = "Approved"}

\* populate(): a reference whose Registration is gone reads as null.
Populated(ref) == IF ref # NULL /\ regStatus[ref] # NoReg THEN ref ELSE NULL

\* Fixture.find({tournament: id}).populate('participant1 participant2 winner')
PopulatedFixture(doc) ==
  [doc EXCEPT !.participant1 = Populated(@), !.participant2 = Populated(@),
              !.winner = Populated(@)]

FoundFixtures ==
  {[i \in DOMAIN o |-> PopulatedFixture(fixtures[o[i]])] :
     o \in Orderings({id \in FixtureIds : Exists(fixtures, id)})}

\* standings.findIndex(s => s.participant._id.toString() === ref._id.toString());
\* 0 stands for -1.
FindIndex(st, ref) ==
  IF \E i \in 1 .. Len(st) : st[i].participant = ref
  THEN CHOOSE i \in 1 .. Len(st) :
         st[i].participant = ref /\ \A j \in 1 .. (i - 1) : st[j].participant # ref
  ELSE 0

\* fixture.status === 'Completed' && fixture.result
Counted(f) == f.status = "Completed" /\ f.result # << >>

\* A fixture whose participant reads as null throws on every standings row.
ThrowsOnNull(st, f) ==
  Counted(f) /\ (f.participant1 = NULL \/ f.participant2 = NULL)

\* Reading fixture.participant1._id of a null participant throws a TypeError;
\* the findIndex callback runs only when standings has a row.
Throws(st, f) ==
  Counted(f) /\ Len(st) > 0 /\ (f.participant1 = NULL \/ f.participant2 = NULL)

\* Array.prototype.sort, a stable sort; cmp[i][j] is the comparator's value on
\* the rows i and j.
SortBy(st, cmp) ==
  LET Rank(i) == 1 + Cardinality({j \in 1 .. Len(st) :
                        \/ cmp[j][i] < 0
                        \/ cmp[j][i] = 0 /\ j < i})
  IN [k \in 1 .. Len(st) |-> st[CHOOSE i \in 1 .. Len(st) : Rank(i) = k]]

\* standing.position = index + 1
AssignPositions(st) == [k \in 1 .. Len(st) |-> [st[k] EXCEPT !.position = k]]

\* The rows calculateRoundRobinStandings starts from (winPercentage, a
\* quotient no property reads, is left out).
RoundRobinRow(u) ==
  [participant |-> u, position |-> 0, matchesPlayed |-> 0, wins |-> 0, losses |-> 0,
   draws |-> 0, points |-> 0, goalsFor |-> 0, goalsAgainst |-> 0, goalDifference |-> 0]

\* The body of fixtures.forEach in calculateRoundRobinStandings.
RoundRobinStep(st, f) ==
  LET i1 == FindIndex(st, f.participant1)
      i2 == FindIndex(st, f.participant2)
      s1 == f.result[1].participant1Score
      s2 == f.result[1].participant2Score
  IN IF ~Counted(f) \/ i1 = 0 \/ i2 = 0 THEN st
     ELSE LET a == [st EXCEPT ![i1].matchesPlayed = @ + 1]
              b == [a EXCEPT ![i2].matchesPlayed = @ + 1]
              c == [b EXCEPT ![i1].goalsFor = @ + s1]
              d == [c EXCEPT ![i1].goalsAgainst = @ + s2]
              e == [d EXCEPT ![i2].goalsFor = @ + s2]
              g == [e EXCEPT ![i2].goalsAgainst = @ + s1]
          IN IF s1 > s2
             THEN [[[g EXCEPT ![i1].wins = @ + 1]
                       EXCEPT ![i1].points = @ + 3]
                       EXCEPT ![i2].losses = @ + 1]
             ELSE IF s2 > s1
             THEN [[[g EXCEPT ![i2].wins = @ + 1]
                       EXCEPT ![i2].points = @ + 3]
                       EXCEPT ![i1].losses = @ + 1]
             ELSE [[[[g EXCEPT ![i1].draws = @ + 1]
                        EXCEPT ![i2].draws = @ + 1]
                        EXCEPT ![i1].points = @ + 1]
                        EXCEPT ![i2].points = @ + 1]

RECURSIVE RoundRobinLoop(_, _, _)
RoundRobinLoop(st, fxs, i) ==
  IF i > Len(fxs) THEN st
  ELSE RoundRobinLoop(RoundRobinStep(st, fxs[i]), fxs, i + 1)

\* The comparator of the round-robin sort: points, goal difference, goals for.
CompareRoundRobin(a, b) ==
  IF b.points # a.points THEN b.points - a.points
  ELSE IF b.goalDifference # a.goalDifference THEN b.goalDifference - a.goalDifference
  ELSE b.goalsFor - a.goalsFor

calculateRoundRobinStandings(registrations, fxs) ==
  LET st0 == [i \in 1 .. Len(registrations) |-> RoundRobinRow(registrations[i])]
      st1 == RoundRobinLoop(st0, fxs, 1)
      st2 == [i \in 1 .. Len(st1) |->
                [st1[i] EXCEPT !.goalDifference = st1[i].goalsFor - st1[i].goalsAgainst]]
      cmp == [i \in 1 .. Len(st2) |->
                [j \in 1 .. Len(st2) |-> CompareRoundRobin(st2[i], st2[j])]]
  IN AssignPositions(SortBy(st2, cmp))

\* The rows calculateEliminationStandings starts from.
EliminationRow(u) ==
  [participant |-> u, position |-> 0, matchesPlayed |-> 0, wins |-> 0, losses |-> 0,
   draws |-> 0, points |-> 0, eliminated |-> FALSE, advancedToNextRound |-> FALSE]

\* The body of fixtures.forEach in calculateEliminationStandings.
EliminationStep(st, f) ==
  LET i1 == FindIndex(st, f.participant1)
      i2 == FindIndex(st, f.participant2)
  IN IF ~Counted(f) \/ i1 = 0 \/ i2 = 0 THEN st
     ELSE LET a == [st EXCEPT ![i1].matchesPlayed = @ + 1]
              b == [a EXCEPT ![i2].matchesPlayed = @ + 1]
          IN IF f.winner = NULL THEN b
             ELSE IF f.winner = f.participant1
             THEN [[[b EXCEPT ![i1].wins = @ + 1]
                       EXCEPT ![i2].losses = @ + 1]
                       EXCEPT ![i2].eliminated = TRUE]
             ELSE [[[b EXCEPT ![i2].wins = @ + 1]
                       EXCEPT ![i1].losses = @ + 1]
                       EXCEPT ![i1].eliminated = TRUE]

RECURSIVE EliminationLoop(_, _, _)
EliminationLoop(st, fxs, i) ==
  IF i > Len(fxs) THEN st
  ELSE EliminationLoop(EliminationStep(st, fxs[i]), fxs, i + 1)

\* The comparator of the elimination sort: wins, then matches played.
CompareElimination(a, b) ==
  IF b.wins # a.wins THEN b.wins - a.wins
  ELSE b.matchesPlayed - a.matchesPlayed

calculateEliminationStandings(registrations, fxs) ==
  LET st0 == [i \in 1 .. Len(registrations) |-> EliminationRow(registrations[i])]
      st1 == EliminationLoop(st0, fxs, 1)
      cmp == [i \in 1 .. Len(st1) |->
                [j \in 1 .. Len(st1) |-> CompareElimination(st1[i], st1[j])]]
  IN AssignPositions(SortBy(st1, cmp))

\* The response of getTournamentStandings to the documents the finds returned.
StandingsResponse(format, registrations, fxs) ==
  IF \E i \in 1 .. Len(fxs) :
       Throws([k \in 1 .. Len(registrations) |-> [participant |-> registrations[k]]], fxs[i])
  THEN [code |-> "500", data |-> << >>]
  ELSE [code |-> "200",
        data |-> IF format = "Round Robin"
                 THEN calculateRoundRobinStandings(registrations, fxs)
                 ELSE calculateEliminationStandings(registrations, fxs)]

\* GET /:id/standings
getTournamentStandings(registrations, fxs) ==
  /\ UNCHANGED <<storeVars, resp, teamVars, concVars, payVars>>
  /\ standings' = StandingsResponse(tournament.format, registrations, fxs)

\* The results a played fixture may hold.
PlayedResults == [participant1Score : Scores, participant2Score : Scores, forfeit : BOOLEAN]

\* A fixture of registrations a and b as generateFixtures stores it.
ScheduledFixture(a, b) ==
  [NoDoc EXCEPT !.tournament = 1, !.round = 1, !.participant1 = a, !.participant2 = b]

\* The fixtures a tournament may hold: none, a scheduled one, or one completed
\* by updateFixtureResult; participants in registration order.
TournamentFixtures ==
  {NoDoc}
    \cup {ScheduledFixture(a, b) : a \in Regs, b \in Regs}
    \cup {[ScheduledFixture(a, b) EXCEPT
             !.result = <<r>>, !.status = "Completed",
             !.winner = ControllerWinner(ScheduledFixture(a, b), r)[2]] :
            a \in Regs, b \in Regs, r \in PlayedResults}

InOrder(doc) == doc.participant1 = NULL \/ doc.participant1 < doc.participant2

\* Standings of a tournament in play: registrations approved, rejected or
\* cancelled after the bracket was generated, and fixtures played or not.
InitStand ==
  /\ tournament \in [status : {"InProgress"}, format : TournamentFormats,
                     maxParticipants : {NumRegs}, currentParticipants : {NumRegs}]
  /\ regStatus \in [Regs -> {"Approved", "Rejected", NoReg}]
  /\ \E f \in [FixtureIds -> {doc \in TournamentFixtures : InOrder(doc)}] :
       fixtures = [id \in FixtureIds |->
                     IF Exists(f, id) THEN [f[id] EXCEPT !.matchNumber = id] ELSE NoDoc]
  /\ edits = 0
  /\ resp = "off"
  /\ teams = << >> /\ teamFormat = "league" /\ teamFixtures = << >>
  /\ bracket = [id \in ConcIds |-> NoDoc]
  /\ pc = [p \in Procs |-> "idle"]
  /\ local = [p \in Procs |-> NoLocal]
  /\ standings = NoStandings
  /\ paymentStatus = [r \in Regs |-> "Pending"]
  /\ payment = [r \in Regs |-> NoPayment]

NextStand ==
  \E registrations \in Orderings(ApprovedRegistrations), fxs \in FoundFixtures :
    getTournamentStandings(registrations, fxs)

SpecStand == InitStand /\ [][NextStand]_vars

\* Generation for tournament 1 while the collection also holds a fixture of
\* another tournament.
OtherTournament == 2
OtherId == MaxGen + 1

\* A fixture of registrations 1 and 2 completed with result r.
CompletedFixture(t, r) ==
  [ScheduledFixture(1, 2) EXCEPT
     !.tournament = t, !.matchNumber = 1, !.result = <<r>>, !.status = "Completed",
     !.winner = ControllerWinner(ScheduledFixture(1, 2), r)[2]]

\* Tournament 1 has a bracket with a recorded result; so has the other one.
InitFrame ==
  /\ tournament \in [status : {"Open"}, format : TournamentFormats,
                     maxParticipants : {NumRegs}, currentParticipants : {NumRegs}]
  /\ regStatus = [r \in Regs |-> "Approved"]
  /\ \E r \in Results :
       fixtures = [id \in FixtureIds \cup {OtherId} |->
                     IF id = OtherId THEN CompletedFixture(OtherTournament, r)
                     ELSE IF id = 1 THEN CompletedFixture(1, r)
                     ELSE NoDoc]
  /\ edits = 0
  /\ resp = "none"
  /\ teams = << >> /\ teamFormat = "league" /\ teamFixtures = << >>
  /\ bracket = [id \in ConcIds |-> NoDoc]
  /\ pc = [p \in Procs |-> "idle"]
  /\ local = [p \in Procs |-> NoLocal]
  /\ standings = NoStandings
  /\ paymentStatus = [r \in Regs |-> "Pending"]
  /\ payment = [r \in Regs |-> NoPayment]

NextFrame == \E req \in GenRequests : generateFixtures(req)

SpecFrame == InitFrame /\ [][NextFrame]_vars

(***************************************************************************)
(* Payments.                                                               *)
(***************************************************************************)

VerificationStatuses == {"Pending", "Verified", "Rejected"}
PaymentStatuses == {"Pending", "Confirmed", "Rejected"}

\* paymentSchema.post('save'): the registration's paymentStatus after a save
\* that left the payment with verificationStatus vs.
PaymentPostSave(ps, vs, changed) ==
  IF vs = "Verified" /\ ModifiedInPostSave(changed) THEN "Confirmed"
  ELSE IF vs = "Rejected" /\ ModifiedInPostSave(changed) THEN "Rejected"
  ELSE ps

\* POST /upload/:registrationId: a first upload creates the Payment, a later
\* one resets it to Pending.
uploadPaymentConfirmation(u) ==
  /\ UNCHANGED <<storeVars, teamVars, concVars, standings>>
  /\ IF regStatus[u] = NoReg
     THEN Reply("404") /\ UNCHANGED payVars
     ELSE /\ payment' = [payment EXCEPT ![u] = "Pending"]
          /\ paymentStatus' = [paymentStatus EXCEPT
               ![u] = PaymentPostSave(@, "Pending", payment[u] # "Pending")]
          /\ Reply("200")

\* PUT /verify/:paymentId with verificationStatus Verified or Rejected.
verifyPayment(u, vs) ==
  /\ UNCHANGED <<storeVars, teamVars, concVars, standings>>
  /\ IF payment[u] = NoPayment
     THEN Reply("404") /\ UNCHANGED payVars
     ELSE /\ payment' = [payment EXCEPT ![u] = vs]
          /\ paymentStatus' = [paymentStatus EXCEPT
               ![u] = PaymentPostSave(@, vs, payment[u] # vs)]
          /\ Reply("200")

\* PUT /:registrationId/verify-payment of the registration routes.
verifyRegistrationPayment(u, ps) ==
  /\ UNCHANGED <<storeVars, teamVars, concVars, standings, payment>>
  /\ IF regStatus[u] = NoReg
     THEN Reply("404") /\ UNCHANGED paymentStatus
     ELSE /\ paymentStatus' = [paymentStatus EXCEPT ![u] = ps]
          /\ Reply("200")

\* Payments for the registrations of an open tournament; the third user has
\* not registered.
InitPay ==
  /\ tournament = [status |-> "Open", format |-> "Single Elimination",
                   maxParticipants |-> NumRegs, currentParticipants |-> NumRegs - 1]
  /\ regStatus = [r \in Regs |-> IF r < NumRegs THEN "Pending" ELSE NoReg]
  /\ fixtures = [id \in FixtureIds |-> NoDoc]
  /\ edits = 0
  /\ resp = "none"
  /\ teams = << >> /\ teamFormat = "league" /\ teamFixtures = << >>
  /\ bracket = [id \in ConcIds |-> NoDoc]
  /\ pc = [p \in Procs |-> "idle"]
  /\ local = [p \in Procs |-> NoLocal]
  /\ standings = NoStandings
  /\ paymentStatus = [r \in Regs |-> "Pending"]
  /\ payment = [r \in Regs |-> NoPayment]

NextPay ==
  \/ \E u \in Regs : uploadPaymentConfirmation(u)
  \/ \E u \in Regs, vs \in {"Verified", "Rejected"} : verifyPayment(u, vs)
  \/ \E u \in Regs, ps \in PaymentStatuses : verifyRegistrationPayment(u, ps)

SpecPay == InitPay /\ [][NextPay]_vars

(***************************************************************************)
(* Tournament completion.                                                  *)
(***************************************************************************)

\* Fixture.countDocuments({tournament: id, status: {$ne: 'Completed'}})
IncompleteMatches ==
  Cardinality({id \in DOMAIN fixtures :
                 /\ fixtures[id].tournament = 1
                 /\ fixtures[id].status # "Completed"})

CannotFinalize == "400 Cannot finalize tournament"
PrizesInitiated == "200 Prize distribution initiated successfully"
MustBeCompleted == "400 Tournament must be completed before distributing prizes"

\* A finalisation that does not count the incomplete matches.
calculateFinalStandingsUnchecked(registrations, fxs) ==
  /\ UNCHANGED <<regStatus, fixtures, edits, teamVars, concVars, payVars>>
  /\ tournament' = [tournament EXCEPT !.status = "Completed"]
  /\ standings' = StandingsResponse(tournament.format, registrations, fxs)
  /\ Reply(standings'.code)

\* POST /:id/calculate-standings. After the save the handler calls
\* getTournamentStandings(req, res), which sends the response itself.
calculateFinalStandings(registrations, fxs) ==
  /\ UNCHANGED <<regStatus, fixtures, edits, teamVars, concVars, payVars>>
  /\ IF IncompleteMatches > 0
     THEN Reply(CannotFinalize) /\ UNCHANGED <<tournament, standings>>
     ELSE /\ tournament' = [tournament EXCEPT !.status = "Completed"]
          /\ standings' = StandingsResponse(tournament.format, registrations, fxs)
          /\ Reply(standings'.code)

\* POST /:id/distribute-prizes with a standings array in the body.
distributePrizes ==
  /\ UNCHANGED <<storeVars, teamVars, concVars, standings, payVars>>
  /\ Reply(IF tournament.status # "Completed" THEN MustBeCompleted ELSE PrizesInitiated)

\* A tournament in play whose fixtures are scheduled, in progress or completed.
InitFinal ==
  /\ tournament \in [status : {"InProgress"}, format : TournamentFormats,
                     maxParticipants : {NumRegs}, currentParticipants : {NumRegs}]
  /\ regStatus = [r \in Regs |-> "Approved"]
  /\ \E f \in [FixtureIds -> {doc \in TournamentFixtures : InOrder(doc)}] :
       fixtures = [id \in FixtureIds |->
                     IF Exists(f, id) THEN [f[id] EXCEPT !.matchNumber = id] ELSE NoDoc]
  /\ edits = 0
  /\ resp = "none"
  /\ teams = << >> /\ teamFormat = "league" /\ teamFixtures = << >>
  /\ bracket = [id \in ConcIds |-> NoDoc]
  /\ pc = [p \in Procs |-> "idle"]
  /\ local = [p \in Procs |-> NoLocal]
  /\ standings = NoStandings
  /\ paymentStatus = [r \in Regs |-> "Pending"]
  /\ payment = [r \in Regs |-> NoPayment]

NextFinal ==
  \/ \E registrations \in Orderings(ApprovedRegistrations), fxs \in FoundFixtures :
       calculateFinalStandings(registrations, fxs)
  \/ distributePrizes
  \/ \E id \in FixtureIds, status \in StatusInputs : updateFixtureStatus(id, status)

SpecFinal == InitFinal /\ [][NextFinal]_vars

(***************************************************************************)
(* Properties of the fixture store.                                        *)
(***************************************************************************)

\* The fixtures that take the winner of fixture id: the next-round fixtures of
\* the same tournament and the fixture named by nextMatchId.
Downstream(fx, id) ==
  {j \in DOMAIN fx :
     /\ Exists(fx, j)
     /\ j # id
     /\ \/ fx[j].tournament = fx[id].tournament /\ fx[j].round = fx[id].round + 1
        \/ fx[id].nextMatchId = j}

\* C1: in every reachable state no Match has participant1 and participant2
\* both set to the same participant.
C1_ParticipantsDiffer ==
  \A id \in FixtureIds :
    Exists(fixtures, id) /\ fixtures[id].participant1 # NULL
      => fixtures[id].participant1 # fixtures[id].participant2

\* C2: in every reachable state every completed Match that has a winner has
\* its winner in slot 1 or in slot 2.
C2_WinnerIsParticipant ==
  \A id \in FixtureIds :
    Exists(fixtures, id) /\ fixtures[id].status = "Completed" /\ fixtures[id].winner # NULL
      => fixtures[id].winner \in {fixtures[id].participant1, fixtures[id].participant2}

\* The slots of downstream fixtures that hold the winner of id after a step.
WinnerSlots(id) ==
  {sl \in Downstream(fixtures, id) \X {"participant1", "participant2"} :
     fixtures'[sl[1]][sl[2]] = fixtures'[id].winner}

\* C3: a recording that gives a Match of an elimination tournament a winner,
\* where a downstream Match exists, places the winner in exactly one slot of
\* exactly one downstream Match: after it the winner holds exactly one
\* downstream slot.
C3_WinnerPlacedOnce ==
  [][\A id \in FixtureIds, r \in Results, status \in StatusParams, fresh \in BOOLEAN :
       /\ updateFixtureResult(id, r, status, fresh)
       /\ Exists(fixtures, id)
       /\ IsEliminationFormat(tournament.format)
       /\ Downstream(fixtures, id) # {}
       /\ RecordResult(fixtures, tournament.format, id, r, status, fresh)[1]
       /\ fixtures'[id].winner # NULL
       => Cardinality(WinnerSlots(id)) = 1]_vars

C6_CapacityRespected ==
  /\ OccupyingCount <= tournament.maxParticipants
  /\ tournament.currentParticipants <= tournament.maxParticipants

\* C10: generation for a tournament with fewer than 2 approved registrations
\* fails and leaves the tournament's fixtures and the tournament unchanged.
C10_InsufficientLeavesAll ==
  [][\A req \in ShortRequests :
       generateFixtures(req) /\ ApprovedCount < 2
       => /\ resp' = InsufficientRegistrations
          /\ fixtures' = fixtures
          /\ tournament' = tournament]_vars

\* A generation was refused for want of approved registrations while the
\* tournament holds fixtures of an earlier generation.
C10_Witness ==
  /\ resp = InsufficientRegistrations
  /\ ApprovedCount < 2
  /\ \E id \in FixtureIds : Exists(fixtures, id)

(***************************************************************************)
(* Properties of the team-based generation.                                *)
(***************************************************************************)

\* The fixtures of a sequence that pair a and b, in either order.
Pairing(fs, a, b) ==
  {k \in 1 .. Len(fs) : {fs[k].homeTeam, fs[k].awayTeam} = {a, b}}

Confirmed == {ConfirmedTeams[k] : k \in 1 .. Len(ConfirmedTeams)}

C5_BothWinnersAdvance ==
  /\ pc[1] = "done" /\ pc[2] = "done"
  /\ bracket[1].winner # NULL /\ bracket[2].winner # NULL
  /\ Exists(bracket, 3)
  => {bracket[3].participant1, bracket[3].participant2}
       = {bracket[1].winner, bracket[2].winner}

(***************************************************************************)
(* Properties of result recording.                                         *)
(***************************************************************************)

\* The winner a result calls for: the strictly higher score wins, equal
\* scores without forfeit leave no winner; cur stands where nothing is said.
ExpectedWinner(doc, r, cur) ==
  IF r.participant1Score > r.participant2Score THEN doc.participant1
  ELSE IF r.participant2Score > r.participant1Score THEN doc.participant2
  ELSE IF ~r.forfeit THEN NULL
  ELSE cur

\* C11: after recording a result on any Match, also one that already had a
\* result and a winner, the winner is participant1 if score1 > score2,
\* participant2 if score2 > score1, and unset if the scores are equal and the
\* forfeit flag is not set.
C11_WinnerFollowsScores ==
  [][\A id \in FixtureIds, r \in Results, status \in StatusParams, fresh \in BOOLEAN :
       /\ updateFixtureResult(id, r, status, fresh)
       /\ Exists(fixtures, id)
       /\ RecordResult(fixtures, tournament.format, id, r, status, fresh)[1]
       => fixtures'[id].winner = ExpectedWinner(fixtures'[id], r, fixtures'[id].winner)]_vars

\* C12: after every successful result recording the Match's status is
\* Completed, whatever status the request carried and whatever it was before.
C12_RecordingCompletes ==
  [][\A id \in FixtureIds, r \in Results, status \in StatusParams, fresh \in BOOLEAN :
       /\ updateFixtureResult(id, r, status, fresh)
       /\ Exists(fixtures, id)
       /\ RecordResult(fixtures, tournament.format, id, r, status, fresh)[1]
       => fixtures'[id].status = "Completed"]_vars

(* Properties of winner progression. *)
\* The downstream fixture a winner of fixture id advances to: the first by
\* matchNumber.
DownstreamMatch(fx, id) ==
  CHOOSE d \in Downstream(fx, id) :
    \A e \in Downstream(fx, id) : fx[d].matchNumber <= fx[e].matchNumber

\* The downstream fixture once the winner w has taken its first unfilled slot.
FirstUnfilled(doc, w) ==
  IF doc.participant1 = NULL THEN [doc EXCEPT !.participant1 = w]
  ELSE IF doc.participant2 = NULL THEN [doc EXCEPT !.participant2 = w]
  ELSE doc

C19_ProgressionFailureReported ==
  [][\A id \in FixtureIds, r \in Results, status \in StatusParams, fresh \in BOOLEAN :
       /\ updateFixtureResult(id, r, status, fresh)
       /\ Exists(fixtures, id)
       /\ IsEliminationFormat(tournament.format)
       /\ Downstream(fixtures, id) # {}
       /\ RecordResult(fixtures, tournament.format, id, r, status, fresh)[1]
       /\ fixtures'[id].result = <<r>>
       /\ fixtures'[id].winner # NULL
       /\ WinnerSlots(id) = {}
       => resp' # "200"]_vars

(* Properties of the standings. *)
\* The completed matches registration u played.
PlayedBy(u) ==
  {id \in FixtureIds :
     /\ Exists(fixtures, id)
     /\ Counted(fixtures[id])
     /\ u \in {fixtures[id].participant1, fixtures[id].participant2}}

\* The score of u in match id, and the score of its opponent.
ScoreOf(id, u) ==
  IF fixtures[id].participant1 = u THEN fixtures[id].result[1].participant1Score
  ELSE fixtures[id].result[1].participant2Score

ScoreAgainst(id, u) ==
  IF fixtures[id].participant1 = u THEN fixtures[id].result[1].participant2Score
  ELSE fixtures[id].result[1].participant1Score

RECURSIVE GoalsOver(_, _, _)
GoalsOver(ids, u, own) ==
  IF ids = {} THEN 0
  ELSE LET id == CHOOSE i \in ids : TRUE
       IN (IF own THEN ScoreOf(id, u) ELSE ScoreAgainst(id, u))
            + GoalsOver(ids \ {id}, u, own)

\* The row of the reference table for registration u.
ReferenceRow(u) ==
  LET w == Cardinality({id \in PlayedBy(u) : ScoreOf(id, u) > ScoreAgainst(id, u)})
      l == Cardinality({id \in PlayedBy(u) : ScoreOf(id, u) < ScoreAgainst(id, u)})
      d == Cardinality({id \in PlayedBy(u) : ScoreOf(id, u) = ScoreAgainst(id, u)})
      gf == GoalsOver(PlayedBy(u), u, TRUE)
      ga == GoalsOver(PlayedBy(u), u, FALSE)
  IN [matchesPlayed |-> Cardinality(PlayedBy(u)), wins |-> w, losses |-> l, draws |-> d,
      points |-> 3 * w + d, goalsFor |-> gf, goalsAgainst |-> ga,
      goalDifference |-> gf - ga]

\* C14: the round-robin standings equal the reference table: one row for
\* every approved participant whose matchesPlayed, wins, losses, draws,
\* goalsFor and goalsAgainst are the totals over the completed matches it
\* played, points = 3*wins + draws, goalDifference = goalsFor - goalsAgainst;
\* rows ordered by points, then goal difference, then goals-for, all
\* descending, with positions 1..n in that order.
C14_RoundRobinReference ==
  standings.code = "200" /\ tournament.format = "Round Robin"
    => LET st == standings.data
       IN /\ Len(st) = Cardinality(ApprovedRegistrations)
          /\ \A u \in ApprovedRegistrations :
               \E i \in 1 .. Len(st) :
                 /\ st[i].participant = u
                 /\ \A k \in DOMAIN ReferenceRow(u) : st[i][k] = ReferenceRow(u)[k]
          /\ \A i \in 1 .. Len(st) : st[i].position = i
          /\ \A i, j \in 1 .. Len(st) :
               i < j => CompareRoundRobin(st[i], st[j]) <= 0

\* The completed matches u won, and those it lost: the ones another won.
WonBy(u) == {id \in PlayedBy(u) : fixtures[id].winner = u}
LostBy(u) == {id \in PlayedBy(u) : fixtures[id].winner \notin {NULL, u}}

\* C15: the elimination standings hold one row for every approved participant
\* with its wins and losses over the completed matches it played, mark it
\* eliminated if and only if it lost at least one completed match, and order
\* rows by wins descending then matches played descending, positions 1..n.
C15_EliminationReference ==
  standings.code = "200" /\ tournament.format # "Round Robin"
    => LET st == standings.data
       IN /\ Len(st) = Cardinality(ApprovedRegistrations)
          /\ \A u \in ApprovedRegistrations :
               \E i \in 1 .. Len(st) :
                 /\ st[i].participant = u
                 /\ st[i].matchesPlayed = Cardinality(PlayedBy(u))
                 /\ st[i].wins = Cardinality(WonBy(u))
                 /\ st[i].losses = Cardinality(LostBy(u))
                 /\ st[i].eliminated <=> LostBy(u) # {}
          /\ \A i \in 1 .. Len(st) : st[i].position = i
          /\ \A i, j \in 1 .. Len(st) :
               i < j => CompareElimination(st[i], st[j]) <= 0

\* C16: standings are deterministic in the sets of inputs: for the same set of
\* participants and the same set of matches, the ranking a request returned is
\* the ranking returned for every order in which participants and matches are
\* supplied, however often it is computed.
C16_OrderIndependent ==
  standings.code # "none"
    => \A registrations \in Orderings(ApprovedRegistrations), fxs \in FoundFixtures :
         StandingsResponse(tournament.format, registrations, fxs) = standings

\* C17: for a tournament with zero approved participants the standings
\* request answers 200 with an empty ranking, whatever matches exist.
C17_EmptyStandings ==
  standings.code # "none" /\ ApprovedRegistrations = {}
    => standings = [code |-> "200", data |-> << >>]

\* An empty ranking was returned while a completed match exists whose
\* participants' registrations are gone.
C17_Witness ==
  /\ standings.code = "200"
  /\ ApprovedRegistrations = {}
  /\ \E id \in FixtureIds :
       /\ Exists(fixtures, id)
       /\ Counted(fixtures[id])
       /\ regStatus[fixtures[id].participant1] = NoReg

(* Properties of bracket generation. *)
\* The entries of a request that a validation rule of the schema rejects.
InvalidEntries(req) ==
  {i \in 1 .. Len(req) :
     ~(RequiredOK(NewFixture(req, i)) /\ ParticipantsDifferent(NewFixture(req, i)))}

\* C18: a bracket generation rejected because a supplied match violates a
\* validation rule writes nothing: the matches that existed are still present
\* and none of the new matches is persisted.
C18_RejectedGenerationWritesNothing ==
  [][\A req \in GenRequests :
       /\ generateFixtures(req)
       /\ ApprovedCount >= 2
       /\ FirstThrow(req) > Len(req)
       /\ InvalidEntries(req) # {}
       => fixtures' = fixtures]_vars

\* C20: after a successful bracket generation for tournament 1 its match set
\* is exactly the set of matches created by that call, none of them carrying a
\* result, a winner or a status of the previous bracket, and the matches of
\* every other tournament are unchanged.
C20_GenerationReplacesOwnBracket ==
  [][\A req \in GenRequests :
       /\ generateFixtures(req)
       /\ ApprovedCount >= 2
       /\ SavedEntries(req) = 1 .. Len(req)
       => /\ {id \in DOMAIN fixtures : fixtures'[id].tournament = 1} = 1 .. Len(req)
          /\ \A id \in 1 .. Len(req) :
               /\ fixtures'[id].participant1 = req[id].participant1[1]
               /\ fixtures'[id].participant2 = req[id].participant2[1]
               /\ fixtures'[id].round = req[id].round
               /\ fixtures'[id].result = << >>
               /\ fixtures'[id].winner = NULL
               /\ fixtures'[id].status = "Scheduled"
          /\ \A id \in DOMAIN fixtures :
               fixtures[id].tournament = OtherTournament => fixtures'[id] = fixtures[id]]_vars

\* A generation has just succeeded for tournament 1, whose bracket held a
\* recorded result, while the other tournament's completed fixture is stored.
C20_Witness ==
  /\ resp = "201"
  /\ \E id \in FixtureIds : Exists(fixtures, id)
  /\ fixtures[OtherId].tournament = OtherTournament
  /\ fixtures[OtherId].result # << >>

(* Properties of the tournament's status. *)
\* The registrations occupying a place after a step.
OccupyingAfter == Cardinality({u \in Regs : regStatus'[u] \in {"Pending", "Approved"}})

\* A registration, registration status change, cancellation or capacity
\* refresh that was carried out.
CapacityStep ==
  \/ \E u \in Regs : registerIndividual(u) /\ resp' = "201"
  \/ \E u \in Regs, status \in RegistrationStatuses :
       updateRegistrationStatus(u, status) /\ resp' = "200"
  \/ \E u \in Regs : cancelRegistration(u) /\ resp' = "200"
  \/ updateCapacity

\* C21: after every registration, registration status change, cancellation
\* and capacity refresh of a tournament that is Open or Full, the tournament's
\* status is Full if and only if the registrations occupying a place (Pending
\* or Approved) have reached maxParticipants, and Open otherwise.
C21_FullIffOccupied ==
  [][tournament.status \in {"Open", "Full"} /\ CapacityStep
       => tournament'.status = IF OccupyingAfter >= tournament'.maxParticipants
                               THEN "Full" ELSE "Open"]_vars

(* Properties of the payments. *)
\* C22: whenever a payment's verificationStatus changes to Verified the
\* registration it references ends with paymentStatus Confirmed, and whenever
\* it changes to Rejected that registration ends with paymentStatus Rejected.
C22_VerificationReachesRegistration ==
  [][\A u \in Regs :
       /\ (payment'[u] = "Verified" /\ payment[u] # "Verified"
             => paymentStatus'[u] = "Confirmed")
       /\ (payment'[u] = "Rejected" /\ payment[u] # "Rejected"
             => paymentStatus'[u] = "Rejected")]_vars

\* C30: in every reachable state a registration whose paymentStatus is
\* Confirmed has a payment whose verificationStatus is Verified; a re-upload,
\* which resets the payment to Pending, does not leave it Confirmed.
C30_ConfirmedHasVerifiedPayment ==
  \A u \in Regs : paymentStatus[u] = "Confirmed" => payment[u] = "Verified"

\* A registration, registration status change, cancellation, capacity refresh
\* or bracket generation.
ParticipationStep ==
  \/ \E u \in Regs : registerIndividual(u)
  \/ \E u \in Regs, status \in RegistrationStatuses : updateRegistrationStatus(u, status)
  \/ \E u \in Regs : cancelRegistration(u)
  \/ updateCapacity
  \/ \E req \in ShortRequests : generateFixtures(req)

\* C23: a tournament's status only moves forward: no registration,
\* registration status change, cancellation, capacity refresh or bracket
\* generation moves a tournament that is InProgress or Completed back to Open
\* or Full.
C23_StartedNeverReopens ==
  [][tournament.status \in {"InProgress", "Completed"} /\ ParticipationStep
       => tournament'.status \notin {"Open", "Full"}]_vars

GeneratedParticipants ==
  UNION {{fixtures'[id].participant1, fixtures'[id].participant2} :
           id \in {i \in FixtureIds : Exists(fixtures', i) /\ fixtures'[i].tournament = 1}}

\* C25: every match created by bracket generation for the tournament has, in
\* each filled participant slot, a registration of the tournament whose status
\* is Approved.
C25_GeneratedParticipantsApproved ==
  [][\A req \in ShortRequests :
       generateFixtures(req) /\ fixtures' # fixtures
         => \A p \in GeneratedParticipants \ {NULL} : regStatus[p] = "Approved"]_vars

\* The matches with an unset participant slot.
UnsetSlot(id) ==
  /\ Exists(fixtures, id)
  /\ fixtures[id].participant1 = NULL \/ fixtures[id].participant2 = NULL

\* C27: recording a result on a match that has an unset participant slot
\* fails, and the failure changes neither that match nor any other match.
C27_IncompleteMatchRejected ==
  [][\A id \in FixtureIds, r \in Results, status \in StatusParams :
       \A fresh \in FreshChoices(id, r) :
         UnsetSlot(id) /\ updateFixtureResult(id, r, status, fresh)
           => resp' = "500" /\ fixtures' = fixtures]_vars

\* A recording on a match with an unset slot was answered with a failure.
C27_Witness ==
  /\ resp = "500"
  /\ \E id \in FixtureIds : UnsetSlot(id)
  /\ \A id \in FixtureIds : Exists(fixtures, id) => fixtures[id].result = << >>

(* Properties of a generation interleaved with recordings. *)
\* C26: when a bracket generation for the tournament interleaves with a
\* result recording (and its winner progression) on a match of the old
\* bracket, then once the generation has finished the tournament holds only
\* matches created by that generation, and no generated match has a slot,
\* result or winner other than those the generation gave it.
C26_GenerationWins ==
  pc[Generator] = "done"
    => \A id \in ConcIds :
         Exists(bracket, id)
           => id \in GeneratedIds /\ bracket[id] = local[Generator].fixture

\* A recording read its match before the generation deleted it and saved
\* afterwards; the generation stored its match; everybody has finished.
C26_Witness ==
  /\ pc[Generator] = "done"
  /\ \E p \in Procs : pc[p] = "lost"
  /\ \E p \in Procs : pc[p] = "done" /\ local[p].next # NULL
  /\ \E id \in GeneratedIds : Exists(bracket, id)

(* Properties of progression after corrections. *)
\* The participants held by the fixtures of the round after fixture id.
Advanced(id) ==
  UNION {{fixtures[n].participant1, fixtures[n].participant2} :
           n \in {i \in FixtureIds : /\ Exists(fixtures, i)
                                      /\ fixtures[i].tournament = fixtures[id].tournament
                                      /\ fixtures[i].round = fixtures[id].round + 1}} \ {NULL}

C29_ResultImpliesCompleted ==
  \A id \in FixtureIds :
    Exists(fixtures, id) /\ (fixtures[id].result # << >> \/ fixtures[id].winner # NULL)
      => fixtures[id].status = "Completed"

====
